---- MODULE Spec2Model ----
(***************************************************************************)
(* Model of report_with_api.py: the POST /generate-report handler of the   *)
(* interview report service, with the helpers it calls                     *)
(* (get_image_base64, create_emotion_charts_html, format_qa_section,       *)
(* generate_llm_prompt, create_pdf_from_html).                             *)
(*                                                                         *)
(* Conventions.                                                            *)
(*  - A Python dict is a sequence of <<key, value>> pairs with distinct    *)
(*    keys, in insertion order.                                            *)
(*  - An optional value is a sequence of length 0 (None / absent) or 1.    *)
(*  - Numbers read from the CSV are fixed-point, in thousandths            *)
(*    (10.111 is 10111), so round(x, 2) is a real rounding.                *)
(*  - A text is a sequence of one-character strings where the code looks   *)
(*    inside it (file names, person names), a string otherwise. Turkish    *)
(*    letters of the source's literals are written without diacritics.     *)
(***************************************************************************)
EXTENDS Integers, Sequences, FiniteSets, TLC

\* ------------------------------------------------------------------------
\* Bounds of the model
\* ------------------------------------------------------------------------
\* Number of requests the server may be handling at once.
NumRequests == 2
\* Largest number of data rows in an uploaded CSV.
MaxRows == 2
\* Largest number of <p> elements in a language-model response.
MaxParas == 1

\* ------------------------------------------------------------------------
\* Generic helpers
\* ------------------------------------------------------------------------
Range(s) == {s[i] : i \in 1..Len(s)}

RECURSIVE Flatten(_)
Flatten(ss) == IF ss = <<>> THEN <<>> ELSE Head(ss) \o Flatten(Tail(ss))

\* str.endswith
EndsWith(s, suffix) ==
    /\ Len(s) >= Len(suffix)
    /\ SubSeq(s, Len(s) - Len(suffix) + 1, Len(s)) = suffix

\* key in d
Has(d, k) == \E i \in 1..Len(d) : d[i][1] = k

\* d[k] for a key that is present
Get(d, k) == d[CHOOSE i \in 1..Len(d) : d[i][1] = k][2]

\* list(d): the keys of d in insertion order
Keys(d) == [i \in 1..Len(d) |-> d[i][1]]

\* round(x, 2) on a non-negative number in thousandths (ties to even, as
\* Python's round)
Round2(x) ==
    LET q == x \div 10
        m == x % 10
    IN  IF m < 5 THEN q * 10
        ELSE IF m > 5 THEN (q + 1) * 10
        ELSE IF q % 2 = 0 THEN q * 10 ELSE (q + 1) * 10

\* int(x) on a non-negative number in thousandths: truncation
ToInt(x) == x \div 1000

\* f'{value:.1f}' on a non-negative number in thousandths: the number of
\* tenths shown
Format1(x) ==
    LET q == x \div 100
        m == x % 100
    IN  IF m < 50 THEN q
        ELSE IF m > 50 THEN q + 1
        ELSE IF q % 2 = 0 THEN q ELSE q + 1

\* ------------------------------------------------------------------------
\* create_emotion_charts_html
\* ------------------------------------------------------------------------
emotion_keys_ordered ==
    << "duygu_mutlu_%", "duygu_kizgin_%", "duygu_igrenme_%", "duygu_korku_%",
       "duygu_uzgun_%", "duygu_saskin_%", "duygu_dogal_%" >>

labels_map ==
    << <<"duygu_mutlu_%", "Mutlu">>, <<"duygu_kizgin_%", "Kizgin">>,
       <<"duygu_igrenme_%", "Igrenme">>, <<"duygu_korku_%", "Korku">>,
       <<"duygu_uzgun_%", "Uzgun">>, <<"duygu_saskin_%", "Saskin">>,
       <<"duygu_dogal_%", "Dogal">> >>

colors ==
    << <<"Mutlu", "#d4eac8">>, <<"Kizgin", "#e5b9b5">>, <<"Igrenme", "#d3cdd7">>,
       <<"Korku", "#a9b4c2">>, <<"Uzgun", "#b7d0e2">>, <<"Saskin", "#fdeac9">>,
       <<"Dogal", "#d8d8d8">> >>

remainder_color == "#f5f5f5"

columns_per_row == 4

\* One chart: the figure drawn by matplotlib (the PNG is a function of it),
\* embedded as a data URI, and the label under it.
chart_content(key, emotion_data) ==
    LET emotion_name == IF Has(labels_map, key) THEN Get(labels_map, key) ELSE "Bilinmeyen"
        value == IF Has(emotion_data, key) THEN Get(emotion_data, key) ELSE 0
    IN  [ img   |-> [ src        |-> "data:image/png;base64",
                      sizes      |-> <<value, 100 * 1000 - value>>,
                      pie_colors |-> << IF Has(colors, emotion_name)
                                          THEN Get(colors, emotion_name) ELSE "#cccccc",
                                        remainder_color >>,
                      text       |-> Format1(value) ],
          label |-> emotion_name ]

\* The loop over emotion_keys_ordered: one chart per key present in
\* emotion_data, in the order of emotion_keys_ordered.
RECURSIVE ChartsOver(_, _)
ChartsOver(keys, emotion_data) ==
    IF keys = <<>> THEN <<>>
    ELSE IF ~Has(emotion_data, Head(keys))
         THEN ChartsOver(Tail(keys), emotion_data)
         ELSE <<chart_content(Head(keys), emotion_data)>>
                  \o ChartsOver(Tail(keys), emotion_data)

\* Variant: the loop runs over the keys of emotion_data, in its own order.
charts_in_mapping_order(emotion_data) ==
    ChartsOver(SelectSeq(Keys(emotion_data),
                         LAMBDA key : key \in Range(emotion_keys_ordered)),
               emotion_data)

charts_content_list(emotion_data) == ChartsOver(emotion_keys_ordered, emotion_data)

\* A <td>: filled with a chart, or empty.
FilledCell(chart) == [ tag |-> "td", filled |-> TRUE,  content |-> <<chart>> ]
EmptyCell         == [ tag |-> "td", filled |-> FALSE, content |-> <<>> ]

\* Variant: the last row gets no empty cells.
TableRowUnpadded(charts, i) ==
    [ j \in 1..(IF Len(charts) - i < columns_per_row THEN Len(charts) - i
                ELSE columns_per_row) |->
        FilledCell(charts[i + j]) ]

\* The inner loop: the row of the table that starts at 0-based chart index i.
TableRow(charts, i) ==
    [ j \in 1..columns_per_row |->
        LET chart_index == i + (j - 1)
        IN  IF chart_index < Len(charts)
            THEN FilledCell(charts[chart_index + 1])
            ELSE EmptyCell ]

\* The outer loop: i in range(0, len(charts), columns_per_row).
RECURSIVE TableRowsFrom(_, _)
TableRowsFrom(charts, i) ==
    IF i >= Len(charts) THEN <<>>
    ELSE <<TableRow(charts, i)>> \o TableRowsFrom(charts, i + columns_per_row)

TableRows(charts) == TableRowsFrom(charts, 0)

create_emotion_charts_html(emotion_data) ==
    LET charts == charts_content_list(emotion_data)
    IN  IF charts = <<>>
        THEN [ tag |-> "p", text |-> "Gorsellestirilecek duygu verisi bulunamadi.",
               rows |-> <<>> ]
        ELSE [ tag |-> "table", text |-> "", rows |-> TableRows(charts) ]

\* ------------------------------------------------------------------------
\* Exceptions and results
\* ------------------------------------------------------------------------
\* An exception object: its class, its status_code (HTTPException only, else
\* 0) and its message (HTTPException: the detail), a sequence of text parts.
Exc(type, status, args) == [ type |-> type, status |-> status, args |-> args ]

HTTPException(status_code, detail) == Exc("HTTPException", status_code, detail)

\* The outcome of a call: a value, or a raised exception.
Ok(v)    == [ ok |-> TRUE,  val |-> <<v>>, exc |-> <<>> ]
Raise(e) == [ ok |-> FALSE, val |-> <<>>,  exc |-> <<e>> ]

\* str(e). HTTPException prints as "<status_code>: <detail>"; every other
\* exception prints its message.
Str(e) ==
    IF e.type = "HTTPException"
    THEN << IF e.status = 400 THEN "400: " ELSE "500: " >> \o e.args
    ELSE e.args

\* ------------------------------------------------------------------------
\* Uploaded files
\* ------------------------------------------------------------------------
Chars(n) ==
    CASE n = "data.csv" -> <<"d", "a", "t", "a", ".", "c", "s", "v">>
      [] n = "data.txt" -> <<"d", "a", "t", "a", ".", "t", "x", "t">>
      [] n = "DATA.CSV" -> <<"D", "A", "T", "A", ".", "C", "S", "V">>
      [] n = "csv"      -> <<"c", "s", "v">>

\* The file names a client may upload.
FileNames == { Chars(n) : n \in {"data.csv", "data.txt", "DATA.CSV", "csv"} }

\* Variants of the file name check: one that ignores case, one that accepts
\* every name.
LowerChar(c) ==
    CASE c = "C" -> "c" [] c = "S" -> "s" [] c = "V" -> "v"
      [] c = "D" -> "d" [] c = "A" -> "a" [] c = "T" -> "t"
      [] OTHER -> c

FilenameOkIgnoreCase(fname) ==
    EndsWith([ i \in 1..Len(fname) |-> LowerChar(fname[i]) ], <<".", "c", "s", "v">>)

FilenameOkAny(fname) == TRUE

\* file.filename.endswith('.csv')
FilenameOk(fname) == EndsWith(fname, <<".", "c", "s", "v">>)

required_columns ==
    << "kisi_adi", "mulakat_adi", "llm_skoru", "duygu_mutlu_%", "duygu_kizgin_%",
       "duygu_igrenme_%", "duygu_korku_%", "duygu_uzgun_%", "duygu_saskin_%",
       "duygu_dogal_%", "ekran_disi_sure_sn", "ekran_disi_sayisi", "soru", "cevap",
       "tip" >>

\* Values of one CSV row (every number in thousandths: 3 is 3000).
PersonName  == <<"A", "y", "U+015F", "e", " ", "Y">>
SessionName == <<"T", "1">>

RowOf(tip) ==
    ("kisi_adi" :> PersonName) @@ ("mulakat_adi" :> SessionName) @@
    ("llm_skoru" :> 85555) @@
    ("duygu_mutlu_%" :> 10111) @@ ("duygu_kizgin_%" :> 20222) @@
    ("duygu_igrenme_%" :> 5555) @@ ("duygu_korku_%" :> 0) @@
    ("duygu_uzgun_%" :> 30333) @@ ("duygu_saskin_%" :> 3779) @@
    ("duygu_dogal_%" :> 30000) @@
    ("ekran_disi_sure_sn" :> 12345) @@ ("ekran_disi_sayisi" :> 3000) @@
    ("soru" :> "soru-1") @@ ("cevap" :> "cevap-1") @@ ("notlar" :> "not") @@
    ("tip" :> tip)

\* The values of the tip column that occur in uploads: 0, 1, 1.5 and 2.
Tips == {0, 1000, 1500, 2000}

Reverse(s) == [i \in 1..Len(s) |-> s[Len(s) + 1 - i]]

Without(s, D) == SelectSeq(s, LAMBDA c : c \notin D)

\* Columns an upload may lack.
Droppable == {"ekran_disi_sayisi", "tip", "kisi_adi"}

\* The header lines that occur in uploads: the required columns in the
\* order of the code, or in another order with an extra column, less any of
\* the droppable ones.
Headers ==
    { Without(base, D) :
        base \in {required_columns, Reverse(required_columns) \o <<"notlar">>},
        D \in SUBSET Droppable }

\* The data rows of an upload with n rows whose second row (if any) has the
\* given tip; each row carries a value for every column of the header.
DataRows(header, n, tip) ==
    [ i \in 1..n |->
        LET full == RowOf(IF i = 2 THEN tip ELSE IF i = 1 THEN 0 ELSE 1)
        IN  [ c \in Range(header) |-> full[c] ] ]

\* The uploaded contents: zero bytes, text the CSV parser rejects, or a
\* header line followed by 0..MaxRows data rows.
CsvFiles ==
    { [ kind |-> "empty", header |-> <<>>, rows |-> <<>> ],
      [ kind |-> "malformed", header |-> <<>>, rows |-> <<>> ] }
    \cup
    { [ kind |-> "table", header |-> h, rows |-> DataRows(h, n, t) ] :
        h \in Headers, n \in 0..MaxRows, t \in Tips }

\* pd.read_csv(io.BytesIO(file_content))
read_csv(file_content) ==
    CASE file_content.kind = "empty" ->
            Raise(Exc("EmptyDataError", 0, <<"No columns to parse from file">>))
      [] file_content.kind = "malformed" ->
            Raise(Exc("ParserError", 0, <<"Error tokenizing data">>))
      [] OTHER ->
            Ok([ columns |-> file_content.header, rows |-> file_content.rows ])

\* [col for col in required_columns if col not in df.columns]
missing_cols(df) == SelectSeq(required_columns, LAMBDA col : col \notin Range(df.columns))

\* df.empty
df_empty(df) == Len(df.columns) = 0 \/ Len(df.rows) = 0

\* ------------------------------------------------------------------------
\* Row selection
\* ------------------------------------------------------------------------
\* Variant: df.iloc[0], the first data row.
iloc0(df) ==
    IF Len(df.rows) < 1
    THEN Raise(Exc("IndexError", 0, <<"single positional indexer is out-of-bounds">>))
    ELSE Ok(df.rows[1])

\* df.iloc[1]
iloc1(df) ==
    IF Len(df.rows) < 2
    THEN Raise(Exc("IndexError", 0, <<"single positional indexer is out-of-bounds">>))
    ELSE Ok(df.rows[2])

\* The dict built from the selected row. Every column it reads was found
\* present by the column check.
row_data_of(row) ==
    << <<"kisi_adi", row["kisi_adi"]>>,
       <<"mulakat_adi", row["mulakat_adi"]>>,
       <<"llm_skoru", Round2(row["llm_skoru"])>>,
       <<"duygu_mutlu_%", Round2(row["duygu_mutlu_%"])>>,
       <<"duygu_kizgin_%", Round2(row["duygu_kizgin_%"])>>,
       <<"duygu_igrenme_%", Round2(row["duygu_igrenme_%"])>>,
       <<"duygu_korku_%", Round2(row["duygu_korku_%"])>>,
       <<"duygu_uzgun_%", Round2(row["duygu_uzgun_%"])>>,
       <<"duygu_saskin_%", Round2(row["duygu_saskin_%"])>>,
       <<"duygu_dogal_%", Round2(row["duygu_dogal_%"])>>,
       <<"ekran_disi_sure_sn", Round2(row["ekran_disi_sure_sn"])>>,
       <<"ekran_disi_sayisi", ToInt(row["ekran_disi_sayisi"])>>,
       <<"soru_cevap", << [ soru |-> row["soru"], cevap |-> row["cevap"] ] >> >>,
       <<"tip", ToInt(row["tip"])>> >>

\* ------------------------------------------------------------------------
\* format_qa_section
\* ------------------------------------------------------------------------
format_qa_section(qa_list) ==
    [ i \in 1..Len(qa_list) |->
        [ class |-> "qa-item", soru |-> qa_list[i].soru, cevap |-> qa_list[i].cevap ] ]

\* ------------------------------------------------------------------------
\* HTML documents
\* ------------------------------------------------------------------------
\* A node of a paragraph: a text (a sequence of pieces: a blank " ", a
\* placeholder token, or generated words) or an element with child nodes.
TextNode(pieces)  == [ node |-> "text", pieces |-> pieces, kids |-> <<>> ]
TagNode(name, ks) == [ node |-> name,   pieces |-> <<>>,   kids |-> ks ]

placeholders_to_remove ==
    << "{{genel_bakis_icerik}}", "{{duygu_analizi_yorumu}}", "{{dikkat_analizi_yorumu}}",
       "{{genel_degerlendirme_icerik}}", "{{sonuclar_oneriler_icerik}}" >>

\* The report template of generate_llm_prompt as a document: the running
\* footer, the watermark container (optional element, with its children), the
\* title, the chart container, the <p> elements in document order (each the
\* sequence of its child nodes) and the question/answer blocks.
html_template(row_data, formatted_qa_html) ==
    [ footer    |-> TRUE,
      watermark |-> << <<>> >>,
      h1        |-> [ name |-> Get(row_data, "kisi_adi"),
                      rest |-> " - Mulakat Degerlendirme Raporu" ],
      pie       |-> << <<>> >>,
      paras     |-> [ i \in 1..Len(placeholders_to_remove) |->
                        << TextNode(<<placeholders_to_remove[i]>>) >> ],
      qa        |-> formatted_qa_html,
      stray     |-> <<>> ]

\* ------------------------------------------------------------------------
\* generate_llm_prompt
\* ------------------------------------------------------------------------
\* The seven emotion figures of a prompt, in the order the text lists them.
DuyguList(row_data) ==
    << Get(row_data, "duygu_mutlu_%"), Get(row_data, "duygu_kizgin_%"),
       Get(row_data, "duygu_igrenme_%"), Get(row_data, "duygu_korku_%"),
       Get(row_data, "duygu_uzgun_%"), Get(row_data, "duygu_saskin_%"),
       Get(row_data, "duygu_dogal_%") >>

DikkatList(row_data) ==
    << Get(row_data, "ekran_disi_sure_sn"), Get(row_data, "ekran_disi_sayisi") >>

\* The instruction text of the branch tip == 0.
CandidateInstructions(row_data, template) ==
    [ intro      |-> "Lutfen asagidaki HTML sablonunu verilen mulakat verilerine gore doldurarak eksiksiz bir HTML raporu olustur.",
      veriler    |-> << <<"Aday Adi", Get(row_data, "kisi_adi")>>,
                        <<"Mulakat Adi", Get(row_data, "mulakat_adi")>>,
                        <<"LLM Skoru", Get(row_data, "llm_skoru")>>,
                        <<"Duygu Analizi (%)", DuyguList(row_data)>>,
                        <<"Dikkat Analizi", DikkatList(row_data)>> >>,
      talimatlar |-> << <<"{{genel_bakis_icerik}}", "Adayin genel performansini ozetleyen en az iki paragraf">>,
                        <<"{{duygu_analizi_yorumu}}", "Duygu analizi verilerini yorumla, en az iki paragraf">>,
                        <<"{{dikkat_analizi_yorumu}}", "Ekran disi sure ve bakis sayisi verilerini yorumla, en az bir paragraf">>,
                        <<"{{genel_degerlendirme_icerik}}", "Adayin guclu ve gelisime acik yonlerini belirt, en az uc paragraf">>,
                        <<"{{sonuclar_oneriler_icerik}}", "sadece Insan Kaynaklari profesyonellerine yonelik: Ise alim karari icin somut onerilerde bulun, en az iki paragraf">> >>,
      kurallar   |-> << "Uretilen tum metin sadece Turkce olmalidir.",
                        "Raporun tonu profesyonel, resmi ve veri odakli olmalidir.",
                        "Kullaniciya yonelik hicbir not, aciklama veya meta-yorum ekleme.",
                        "Sadece ve sadece asagidaki HTML sablonunu doldurarak yanit ver." >>,
      sablon     |-> template ]

\* The instruction text of the branch tip == 1.
CustomerInstructions(row_data, template) ==
    [ intro      |-> "Lutfen asagidaki HTML sablonunu, saglanan musteri roportaji verilerini kullanarak eksiksiz ve profesyonel bir rapora donustur.",
      veriler    |-> << <<"Musteri Adi", Get(row_data, "kisi_adi")>>,
                        <<"Roportaj Adi", Get(row_data, "mulakat_adi")>>,
                        <<"Duygu Analizi Yuzdeleri", DuyguList(row_data)>>,
                        <<"Dikkat Analizi Verileri", DikkatList(row_data)>> >>,
      talimatlar |-> << <<"{{genel_bakis_icerik}}", "Musterinin roportaj sirasindaki genel davranisini ozetleyen en az iki paragraf">>,
                        <<"{{duygu_analizi_yorumu}}", "Duygu analizi yuzdelerini yorumla, baskin duygulari belirle">>,
                        <<"{{dikkat_analizi_yorumu}}", "Ekran disi sure ve bakis sayisi verilerini analiz et">>,
                        <<"{{genel_degerlendirme_icerik}}", "Musterinin guclu yonlerini ve gelisime acik alanlarini belirt">>,
                        <<"{{sonuclar_oneriler_icerik}}", "Musteri hakkinda genel bir sonuc ifadesi, yaklasik 1 paragraf">> >>,
      kurallar   |-> << "Uretilen tum metin sadece Turkce olmalidir.",
                        "Raporun genel tonu profesyonel, objektif, resmi ve veri odakli olmalidir.",
                        "Hicbir dogrudan not, aciklama, meta-yorum veya giris/kapanis cumlesi icermemelidir.",
                        "Yalnizca ve yalnizca yukaridaki HTML sablonunu doldurarak yanit ver.",
                        "HTML icerigi temiz ve duzenli olmalidir.",
                        "Kesinlikle Mulakat dan aday dan bahsetme bu rapor musteri icin hazirlaniyor." >>,
      sablon     |-> template ]

\* Variant: the two branches exchanged.
generate_llm_prompt_swapped(row_data, formatted_qa_html) ==
    LET template == html_template(row_data, formatted_qa_html)
    IN  IF Get(row_data, "tip") = 1
        THEN Ok(CandidateInstructions(row_data, template))
        ELSE IF Get(row_data, "tip") = 0
        THEN Ok(CustomerInstructions(row_data, template))
        ELSE Raise(Exc("UnboundLocalError", 0,
                       <<"local variable 'prompt_instructions' referenced before assignment">>))

\* Variant: the second branch is a plain else, the default for every tip
\* that is not 0.
generate_llm_prompt_defaulting(row_data, formatted_qa_html) ==
    LET template == html_template(row_data, formatted_qa_html)
    IN  IF Get(row_data, "tip") = 0
        THEN Ok(CandidateInstructions(row_data, template))
        ELSE Ok(CustomerInstructions(row_data, template))

\* generate_llm_prompt: prompt_instructions is assigned in the branch
\* tip == 0 and in the branch tip == 1 only; with any other tip the return
\* statement reads a local that was never assigned.
generate_llm_prompt(row_data, formatted_qa_html) ==
    LET template == html_template(row_data, formatted_qa_html)
    IN  IF Get(row_data, "tip") = 0
        THEN Ok(CandidateInstructions(row_data, template))
        ELSE IF Get(row_data, "tip") = 1
        THEN Ok(CustomerInstructions(row_data, template))
        ELSE Raise(Exc("UnboundLocalError", 0,
                       <<"local variable 'prompt_instructions' referenced before assignment">>))

\* ------------------------------------------------------------------------
\* The language-model response and its clean-up
\* ------------------------------------------------------------------------
\* text.strip(): leading and trailing blanks removed.
RECURSIVE LStrip(_)
LStrip(t) == IF t /= <<>> /\ Head(t) = " " THEN LStrip(Tail(t)) ELSE t

Strip(t) == Reverse(LStrip(Reverse(LStrip(t))))

\* text.removeprefix(p), text.removesuffix(p) on a sequence of parts.
RemovePrefix(t, p) == IF t /= <<>> /\ Head(t) = p THEN Tail(t) ELSE t
RemoveSuffix(t, p) == IF t /= <<>> /\ t[Len(t)] = p THEN SubSeq(t, 1, Len(t) - 1) ELSE t

\* response.text.strip() with the leading html code-fence marker and the
\* trailing code-fence marker removed; the text is a sequence of parts:
\* blanks, code-fence markers (written <fence>) and the markup, written
\* "html".
raw_html_content(text) == RemoveSuffix(RemovePrefix(Strip(text), "<fence>html"), "<fence>")

\* The shapes of text around the markup of a response.
Wrappings ==
    { <<"html">>, <<"<fence>html", "html", "<fence>">>, <<" ", "<fence>html", "html", "<fence>", " ">> }

\* The shapes of <p> element that occur in responses.
ParaShapes ==
    { << TextNode(<<"icerik">>) >>,
      << TextNode(<<"{{genel_bakis_icerik}}", " ", "icerik">>) >>,
      << TextNode(<<" ", "{{duygu_analizi_yorumu}}", "{{genel_bakis_icerik}}", "icerik">>) >>,
      << TextNode(<<"{{genel_bakis_icerik}}">>), TagNode("b", <<TextNode(<<"icerik">>)>>) >>,
      << TagNode("span", <<TextNode(<<"{{sonuclar_oneriler_icerik}}", "icerik">>)>>) >>,
      << >> }

RECURSIVE SeqsUpTo(_, _)
SeqsUpTo(S, n) ==
    IF n = 0 THEN { <<>> }
    ELSE LET shorter == SeqsUpTo(S, n - 1)
         IN  shorter \cup { Append(q, x) : q \in shorter, x \in S }

\* The documents a response may hold: the template the prompt carried, with
\* the footer, the watermark container and the chart container each kept or
\* dropped, and up to MaxParas <p> elements of the shapes above.
ResponseDocs(template) ==
    { [ template EXCEPT !.footer = f, !.watermark = w, !.pie = c, !.paras = ps ] :
        f \in BOOLEAN, w \in { <<>>, << <<>> >> }, c \in { <<>>, << <<>> >> },
        ps \in SeqsUpTo(ParaShapes, MaxParas) }

\* BeautifulSoup(raw_html_content, "html.parser"): the document of the markup;
\* fence markers left in the text are text outside every element.
BeautifulSoup(content, doc) ==
    [ doc EXCEPT !.stray = SelectSeq(content, LAMBDA part : part /= "html") ]

\* p_tag.string: the only child if it is a text, the .string of the only
\* child if it is an element, else None.
RECURSIVE TagString(_)
TagString(kids) ==
    IF Len(kids) /= 1 THEN <<>>
    ELSE IF kids[1].node = "text" THEN << kids[1].pieces >>
    ELSE TagString(kids[1].kids)

\* The first placeholder the text starts with, if any (the loop with break).
FirstMatch(original_text) ==
    LET hits == SelectSeq(placeholders_to_remove,
                          LAMBDA ph : original_text /= <<>> /\ Head(original_text) = ph)
    IN  IF hits = <<>> THEN <<>> ELSE << Head(hits) >>

\* p_tag.string.replace_with(new): the text node p_tag.string was taken from
\* is replaced.
RECURSIVE ReplaceString(_, _)
ReplaceString(kids, new) ==
    IF kids[1].node = "text" THEN << TextNode(new) >>
    ELSE << [ kids[1] EXCEPT !.kids = ReplaceString(@, new) ] >>

\* The body of the loop over soup.find_all(p) for one p_tag.
CleanParagraph(p_tag) ==
    LET string == TagString(p_tag)
    IN  IF string = <<>> \/ string[1] = <<>> THEN p_tag
        ELSE LET original_text == Strip(string[1])
             IN  IF FirstMatch(original_text) = <<>> THEN p_tag
                 ELSE ReplaceString(p_tag, Strip(Tail(original_text)))

CleanPlaceholders(soup) ==
    [ soup EXCEPT !.paras = [ i \in 1..Len(@) |-> CleanParagraph(@[i]) ] ]

\* Lines 506-510: the chart container, when the document has one, is emptied
\* and given the chart grid of the row's figures.
InjectCharts(soup, current_row_data) ==
    IF soup.pie /= <<>>
    THEN [ soup EXCEPT !.pie = << << create_emotion_charts_html(current_row_data) >> >> ]
    ELSE soup

\* ------------------------------------------------------------------------
\* get_image_base64 and the watermark
\* ------------------------------------------------------------------------
\* base64.b64encode(bytes).decode(): the 6-bit digits of each 3-byte group,
\* with 64 standing for the padding character.
RECURSIVE b64encode(_)
b64encode(bytes) ==
    IF Len(bytes) = 0 THEN <<>>
    ELSE IF Len(bytes) = 1 THEN
        LET n == bytes[1] * 65536
        IN  << n \div 262144, (n \div 4096) % 64, 64, 64 >>
    ELSE IF Len(bytes) = 2 THEN
        LET n == bytes[1] * 65536 + bytes[2] * 256
        IN  << n \div 262144, (n \div 4096) % 64, (n \div 64) % 64, 64 >>
    ELSE
        LET n == bytes[1] * 65536 + bytes[2] * 256 + bytes[3]
        IN  << n \div 262144, (n \div 4096) % 64, (n \div 64) % 64, n % 64 >>
                \o b64encode(SubSeq(bytes, 4, Len(bytes)))

\* What open(image_path, "rb") finds: no file, a file that cannot be read,
\* or a file with the given bytes.
LogoFiles ==
    { [ state |-> "missing",    bytes |-> <<>> ],
      [ state |-> "unreadable", bytes |-> <<>> ],
      [ state |-> "present",    bytes |-> <<>> ],
      [ state |-> "present",    bytes |-> <<137, 80, 78, 71>> ] }

\* get_image_base64: both except branches return the empty string.
get_image_base64(image_file) ==
    IF image_file.state = "present" THEN b64encode(image_file.bytes) ELSE <<>>

\* Variant: the img element is appended whatever the logo.
AddWatermarkAlways(soup, logo_base64) ==
    IF soup.watermark /= <<>>
    THEN [ soup EXCEPT !.watermark =
             << Append(@[1], [ tag  |-> "img",
                               src  |-> [ scheme |-> "data:image/png;base64,",
                                          data   |-> logo_base64 ],
                               alt  |-> "Deepwork Logo Filigrani" ]) >> ]
    ELSE soup

\* Lines 513-520: with a non-empty logo, an img element is appended to the
\* watermark container when the document has one.
AddWatermark(soup, logo_base64) ==
    IF logo_base64 /= <<>>
    THEN IF soup.watermark /= <<>>
         THEN [ soup EXCEPT !.watermark =
                  << Append(@[1], [ tag  |-> "img",
                                    src  |-> [ scheme |-> "data:image/png;base64,",
                                               data   |-> logo_base64 ],
                                    alt  |-> "Deepwork Logo Filigrani" ]) >> ]
         ELSE soup
    ELSE soup

\* soup.prettify(): the text of the document.
prettify(soup) == [ markup |-> soup ]

\* The name of the debug file and of the attachment: name parts joined.
html_debug_filename(current_row_data) ==
    Get(current_row_data, "kisi_adi") \o <<"_">> \o Get(current_row_data, "mulakat_adi")
        \o <<"_", "R", "a", "p", "o", "r", "_", "D", "e", "b", "u", "g", ".", "h", "t", "m", "l">>

pdf_filename(current_row_data) ==
    Get(current_row_data, "kisi_adi") \o <<"_">> \o Get(current_row_data, "mulakat_adi")
        \o <<"_", "R", "a", "p", "o", "r", ".", "p", "d", "f">>

\* urllib.parse.quote on the characters that occur in names: a blank and a
\* non-ASCII letter (written U+015F) are percent-encoded, the unreserved
\* characters are kept.
QuoteChar(c) ==
    CASE c = " "      -> <<"%", "2", "0">>
      [] c = "U+015F" -> <<"%", "C", "5", "%", "9", "F">>
      [] OTHER        -> <<c>>

quote(string) == Flatten([ i \in 1..Len(string) |-> QuoteChar(string[i]) ])

\* ------------------------------------------------------------------------
\* create_pdf_from_html
\* ------------------------------------------------------------------------
\* What WeasyPrint does with a document: it renders it, or fails with a
\* message.
PdfOutcomes ==
    { [ ok |-> TRUE,  error |-> "" ],
      [ ok |-> FALSE, error |-> "cannot load font" ],
      [ ok |-> FALSE, error |-> "no space left on device" ] }

\* Variant: the failure is logged and the buffer, as far as written, returned.
create_pdf_swallowing(html_content, outcome) == Ok([ pdf_of |-> html_content ])

create_pdf_from_html(html_content, outcome) ==
    IF outcome.ok
    THEN Ok([ pdf_of |-> html_content ])
    ELSE Raise(Exc("ValueError", 0,
                   <<"PDF olusturulurken WeasyPrint hatasi olustu: ", outcome.error>>))

\* ------------------------------------------------------------------------
\* HTTP responses
\* ------------------------------------------------------------------------
\* The response FastAPI sends for a raised HTTPException.
ErrorResponse(e) ==
    [ status |-> e.status, detail |-> e.args, body |-> <<>>, disposition |-> <<>> ]

\* The StreamingResponse of lines 537-540.
StreamingResponse(pdf_bytes, encoded_filename) ==
    [ status |-> 200, detail |-> <<>>, body |-> <<pdf_bytes>>,
      disposition |-> <<"attachment; filename*=UTF-8''">> \o encoded_filename ]

\* The except clauses of generate_report (lines 542-546), applied to an
\* exception raised inside the try block: EmptyDataError first, then every
\* Exception, which HTTPException is.
HandlerExcept(e) ==
    IF e.type = "EmptyDataError"
    THEN HTTPException(400, <<"Yuklenen CSV dosyasi bos.">>)
    ELSE HTTPException(500, <<"Rapor olusturulurken sunucuda bir hata olustu: ">> \o Str(e))

\* ------------------------------------------------------------------------
\* State
\* ------------------------------------------------------------------------
Requests == 1..NumRequests

VARIABLES
    req,           \* req[r]: the frame of the generate_report call serving request r
    running,       \* the request whose handler holds the event loop, 0 when none does
    emotion_data,  \* the argument of a direct call of create_emotion_charts_html
    charts_html    \* the result of that call, once made

vars == << req, running, emotion_data, charts_html >>

\* The frame of a handler that has not started. pc is the position in
\* generate_report; trace is the sequence of steps taken, llm_calls and
\* pdf_renders count the calls of generate_content and of write_pdf.
IdleFrame ==
    [ pc               |-> "idle",
      filename         |-> <<>>,
      file_content     |-> <<>>,
      df               |-> <<>>,
      current_row_data |-> <<>>,
      prompt           |-> <<>>,
      llm_doc          |-> <<>>,
      soup             |-> <<>>,
      logo_base64      |-> <<>>,
      final_html       |-> <<>>,
      debug_file       |-> <<>>,
      pdf_outcome      |-> <<>>,
      response         |-> <<>>,
      trace            |-> <<>>,
      llm_calls        |-> 0,
      pdf_renders      |-> 0 ]

Init ==
    /\ req = [ r \in Requests |-> IdleFrame ]
    /\ running = 0
    /\ emotion_data = <<>>
    /\ charts_html = <<>>

\* The handler of request r moves to frame f.
Goto(r, f) == req' = [ req EXCEPT ![r] = f ]

\* The handler returns or raises: the response is fixed.
Done(frame, response, step) ==
    [ frame EXCEPT !.pc = "done", !.response = <<response>>,
                   !.trace = Append(@, step) ]

\* An exception raised inside the try block reaches the except clauses.
Caught(frame, e, step) ==
    Done([ frame EXCEPT !.trace = Append(@, step) ],
         ErrorResponse(HandlerExcept(e)), "except")

\* ------------------------------------------------------------------------
\* generate_report, step by step
\* ------------------------------------------------------------------------
\* Lines 423-428: a request arrives while the loop is free; the handler
\* checks the file name and either raises HTTPException(400) outside the try
\* block, or reaches "await file.read()" and gives the loop back.
Receive(r) ==
    /\ running = 0
    /\ req[r].pc = "idle"
    /\ \E fname \in FileNames :
         LET frame == [ req[r] EXCEPT !.filename = fname ]
         IN  IF ~FilenameOk(fname)
             THEN /\ Goto(r, Done(frame,
                            ErrorResponse(HTTPException(400,
                                <<"Hatali dosya formati. Lutfen bir .csv dosyasi yukleyin.">>)),
                            "filename_rejected"))
                  /\ running' = r
             ELSE /\ Goto(r, [ frame EXCEPT !.pc = "reading",
                                            !.trace = Append(@, "filename_ok") ])
                  /\ running' = 0
    /\ UNCHANGED << emotion_data, charts_html >>

\* Line 428: the read completes and the handler resumes; from here to its
\* end the handler has no await and keeps the loop.
ReadDone(r) ==
    /\ running = 0
    /\ req[r].pc = "reading"
    /\ \E content \in CsvFiles :
         Goto(r, [ req[r] EXCEPT !.pc = "read_csv", !.file_content = <<content>>,
                                 !.trace = Append(@, "read") ])
    /\ running' = r
    /\ UNCHANGED << emotion_data, charts_html >>

\* Line 429
ReadCsv(r) ==
    /\ running = r
    /\ req[r].pc = "read_csv"
    /\ LET res == read_csv(req[r].file_content[1])
       IN  IF res.ok
           THEN Goto(r, [ req[r] EXCEPT !.pc = "columns", !.df = res.val,
                                        !.trace = Append(@, "read_csv") ])
           ELSE Goto(r, Caught(req[r], res.exc[1], "read_csv"))
    /\ UNCHANGED << running, emotion_data, charts_html >>

\* Lines 431-438
CheckColumns(r) ==
    /\ running = r
    /\ req[r].pc = "columns"
    /\ LET df == req[r].df[1]
       IN  IF missing_cols(df) /= <<>>
           THEN Goto(r, Caught(req[r],
                        HTTPException(400, <<"CSV dosyasinda eksik sutunlar var: ">>
                                               \o missing_cols(df)),
                        "columns_missing"))
           ELSE Goto(r, [ req[r] EXCEPT !.pc = "empty",
                                        !.trace = Append(@, "columns_ok") ])
    /\ UNCHANGED << running, emotion_data, charts_html >>

\* Lines 452-453
CheckEmpty(r) ==
    /\ running = r
    /\ req[r].pc = "empty"
    /\ IF df_empty(req[r].df[1])
       THEN Goto(r, Caught(req[r],
                    HTTPException(400, <<"CSV dosyasi veri icermiyor.">>), "df_empty"))
       ELSE Goto(r, [ req[r] EXCEPT !.pc = "row", !.trace = Append(@, "not_empty") ])
    /\ UNCHANGED << running, emotion_data, charts_html >>

\* Lines 457-475
SelectRow(r) ==
    /\ running = r
    /\ req[r].pc = "row"
    /\ LET res == iloc1(req[r].df[1])
       IN  IF res.ok
           THEN Goto(r, [ req[r] EXCEPT !.pc = "prompt",
                                        !.current_row_data = row_data_of(res.val[1]),
                                        !.trace = Append(@, "iloc") ])
           ELSE Goto(r, Caught(req[r], res.exc[1], "iloc"))
    /\ UNCHANGED << running, emotion_data, charts_html >>

\* Lines 480-482
BuildPrompt(r) ==
    /\ running = r
    /\ req[r].pc = "prompt"
    /\ LET row_data == req[r].current_row_data
           formatted_qa_html == format_qa_section(Get(row_data, "soru_cevap"))
           res == generate_llm_prompt(row_data, formatted_qa_html)
       IN  IF res.ok
           THEN Goto(r, [ req[r] EXCEPT !.pc = "llm", !.prompt = res.val,
                                        !.trace = Append(@, "prompt") ])
           ELSE Goto(r, Caught(req[r], res.exc[1], "prompt"))
    /\ UNCHANGED << running, emotion_data, charts_html >>

\* Variant of CallLLM: a failed call is tried once more.
CallLLMRetrying(r) ==
    /\ running = r
    /\ req[r].pc = "llm"
    /\ LET called == [ req[r] EXCEPT !.llm_calls = @ + 1 ]
       IN  \/ /\ req[r].llm_calls = 0
              /\ Goto(r, [ called EXCEPT !.trace = Append(@, "generate_content") ])
           \/ /\ req[r].llm_calls > 0
              /\ Goto(r, Caught(called,
                         Exc("GoogleAPIError", 0, <<"503 The model is overloaded">>),
                         "generate_content"))
           \/ \E text \in Wrappings, doc \in ResponseDocs(req[r].prompt[1].sablon) :
                LET soup == BeautifulSoup(raw_html_content(text), doc)
                IN  Goto(r, [ called EXCEPT !.pc = "cleanup", !.llm_doc = <<soup>>,
                                            !.soup = <<soup>>,
                                            !.trace = Append(@, "generate_content") ])
    /\ UNCHANGED << running, emotion_data, charts_html >>

\* Variant of CallLLM: the call is awaited (generate_content_async); the
\* handler gives the loop back while the call is outstanding and resumes with
\* the answer.
CallLLMAwaiting(r) ==
    /\ req[r].pc = "llm"
    /\ \/ /\ running = r
          /\ req[r].llm_calls = 0
          /\ Goto(r, [ req[r] EXCEPT !.llm_calls = @ + 1 ])
          /\ running' = 0
       \/ /\ running = 0
          /\ req[r].llm_calls = 1
          /\ \/ Goto(r, Caught(req[r],
                        Exc("GoogleAPIError", 0, <<"503 The model is overloaded">>),
                        "generate_content"))
             \/ \E text \in Wrappings, doc \in ResponseDocs(req[r].prompt[1].sablon) :
                  LET soup == BeautifulSoup(raw_html_content(text), doc)
                  IN  Goto(r, [ req[r] EXCEPT !.pc = "cleanup", !.llm_doc = <<soup>>,
                                              !.soup = <<soup>>,
                                              !.trace = Append(@, "generate_content") ])
          /\ running' = r
    /\ UNCHANGED << emotion_data, charts_html >>

\* Lines 484-488: the blocking call gemini_model.generate_content; it fails,
\* or answers with a text that is stripped of its fence and parsed.
CallLLM(r) ==
    /\ running = r
    /\ req[r].pc = "llm"
    /\ LET called == [ req[r] EXCEPT !.llm_calls = @ + 1 ]
       IN  \/ Goto(r, Caught(called,
                      Exc("GoogleAPIError", 0, <<"503 The model is overloaded">>),
                      "generate_content"))
           \/ \E text \in Wrappings, doc \in ResponseDocs(req[r].prompt[1].sablon) :
                LET soup == BeautifulSoup(raw_html_content(text), doc)
                IN  Goto(r, [ called EXCEPT !.pc = "cleanup", !.llm_doc = <<soup>>,
                                            !.soup = <<soup>>,
                                            !.trace = Append(@, "generate_content") ])
    /\ UNCHANGED << running, emotion_data, charts_html >>

\* Lines 490-504
Cleanup(r) ==
    /\ running = r
    /\ req[r].pc = "cleanup"
    /\ Goto(r, [ req[r] EXCEPT !.pc = "charts",
                               !.soup = << CleanPlaceholders(@[1]) >>,
                               !.trace = Append(@, "cleanup") ])
    /\ UNCHANGED << running, emotion_data, charts_html >>

\* Lines 506-510
Charts(r) ==
    /\ running = r
    /\ req[r].pc = "charts"
    /\ Goto(r, [ req[r] EXCEPT !.pc = "logo",
                               !.soup = << InjectCharts(@[1], req[r].current_row_data) >>,
                               !.trace = Append(@, "charts") ])
    /\ UNCHANGED << running, emotion_data, charts_html >>

\* Lines 512-522
Logo(r) ==
    /\ running = r
    /\ req[r].pc = "logo"
    /\ \E image_file \in LogoFiles :
         LET logo_base64 == get_image_base64(image_file)
             soup == AddWatermark(req[r].soup[1], logo_base64)
         IN  Goto(r, [ req[r] EXCEPT !.pc = "debug",
                                     !.logo_base64 = <<logo_base64>>,
                                     !.soup = <<soup>>,
                                     !.final_html = << prettify(soup) >>,
                                     !.trace = Append(@, "logo") ])
    /\ UNCHANGED << running, emotion_data, charts_html >>

\* Variant: the IOError of the debug write is not caught by an inner clause
\* and reaches the except clauses of the handler.
DebugWriteFatal(r) ==
    /\ running = r
    /\ req[r].pc = "debug"
    /\ \/ Goto(r, [ req[r] EXCEPT !.pc = "pdf",
                                  !.debug_file =
                                      << [ name    |-> html_debug_filename(req[r].current_row_data),
                                           content |-> req[r].final_html[1] ] >>,
                                  !.trace = Append(@, "debug_written") ])
       \/ Goto(r, Caught(req[r], Exc("IOError", 0, <<"Permission denied">>), "debug_failed"))
    /\ UNCHANGED << running, emotion_data, charts_html >>

\* Lines 524-530: the debug file is written, or open/write raises IOError,
\* which the inner except clause logs and drops.
DebugWrite(r) ==
    /\ running = r
    /\ req[r].pc = "debug"
    /\ \/ Goto(r, [ req[r] EXCEPT !.pc = "pdf",
                                  !.debug_file =
                                      << [ name    |-> html_debug_filename(req[r].current_row_data),
                                           content |-> req[r].final_html[1] ] >>,
                                  !.trace = Append(@, "debug_written") ])
       \/ Goto(r, [ req[r] EXCEPT !.pc = "pdf",
                                  !.trace = Append(@, "debug_failed") ])
    /\ UNCHANGED << running, emotion_data, charts_html >>

\* Line 532
RenderPdf(r) ==
    /\ running = r
    /\ req[r].pc = "pdf"
    /\ \E outcome \in PdfOutcomes :
         LET called == [ req[r] EXCEPT !.pdf_renders = @ + 1,
                                       !.pdf_outcome = <<outcome>> ]
             res == create_pdf_from_html(req[r].final_html[1], outcome)
         IN  IF res.ok
             THEN Goto(r, [ called EXCEPT !.pc = "respond",
                                          !.response = << [ status |-> 0, detail |-> <<>>,
                                                            body |-> res.val,
                                                            disposition |-> <<>> ] >>,
                                          !.trace = Append(@, "create_pdf") ])
             ELSE Goto(r, Caught(called, res.exc[1], "create_pdf"))
    /\ UNCHANGED << running, emotion_data, charts_html >>

\* Lines 534-540
Respond(r) ==
    /\ running = r
    /\ req[r].pc = "respond"
    /\ LET pdf_bytes == req[r].response[1].body[1]
           encoded_filename == quote(pdf_filename(req[r].current_row_data))
       IN  Goto(r, Done(req[r], StreamingResponse(pdf_bytes, encoded_filename),
                        "streaming_response"))
    /\ UNCHANGED << running, emotion_data, charts_html >>

\* The server sends the response of the finished handler in the same turn of
\* the loop, and the loop is free again.
Deliver(r) ==
    /\ running = r
    /\ req[r].pc = "done"
    /\ Goto(r, IdleFrame)
    /\ running' = 0
    /\ UNCHANGED << emotion_data, charts_html >>

Next ==
    \E r \in Requests :
        \/ Receive(r)
        \/ ReadDone(r)
        \/ ReadCsv(r)
        \/ CheckColumns(r)
        \/ CheckEmpty(r)
        \/ SelectRow(r)
        \/ BuildPrompt(r)
        \/ CallLLM(r)
        \/ Cleanup(r)
        \/ Charts(r)
        \/ Logo(r)
        \/ DebugWrite(r)
        \/ RenderPdf(r)
        \/ Respond(r)
        \/ Deliver(r)

Spec == Init /\ [][Next]_vars

\* ------------------------------------------------------------------------
\* create_emotion_charts_html called on its own
\* ------------------------------------------------------------------------
\* The keys a caller may put in the mapping: the seven emotion keys and one
\* key that is no emotion key.
ChartKeys == emotion_keys_ordered \o <<"kisi_adi">>

Rotate(s, k) == [ i \in 1..Len(s) |-> s[((i - 1 + k) % Len(s)) + 1] ]

\* The insertion orders of the mappings tried.
KeyOrders == { ChartKeys, Reverse(ChartKeys), Rotate(ChartKeys, 3) }

\* The value stored under a key: the figures of a row, or zero everywhere.
ChartValue(key, zero) ==
    IF key = "kisi_adi" THEN PersonName
    ELSE IF zero THEN 0
    ELSE Round2(RowOf(0)[key])

\* The mappings tried: every subset of the keys, in each insertion order.
EmotionInputs ==
    { [ i \in 1..Len(Without(order, D)) |->
          << Without(order, D)[i], ChartValue(Without(order, D)[i], zero) >> ] :
        order \in KeyOrders, D \in SUBSET Range(ChartKeys), zero \in BOOLEAN }

InitCharts ==
    /\ req = [ r \in Requests |-> IdleFrame ]
    /\ running = 0
    /\ emotion_data \in EmotionInputs
    /\ charts_html = <<>>

RenderCharts ==
    /\ charts_html = <<>>
    /\ charts_html' = << create_emotion_charts_html(emotion_data) >>
    /\ UNCHANGED << req, running, emotion_data >>

NextCharts == RenderCharts

SpecCharts == InitCharts /\ [][NextCharts]_vars

\* ------------------------------------------------------------------------
\* Properties
\* ------------------------------------------------------------------------
\* The vocabulary of the properties, stated without the operators of the
\* handler.
CsvSuffix == <<".", "c", "s", "v">>

\* The file name ends in the exact suffix .csv.
IsCsvName(fname) ==
    /\ Len(fname) >= 4
    /\ \A i \in 1..4 : fname[Len(fname) - 4 + i] = CsvSuffix[i]

RequiredSet ==
    { "kisi_adi", "mulakat_adi", "llm_skoru", "duygu_mutlu_%", "duygu_kizgin_%",
      "duygu_igrenme_%", "duygu_korku_%", "duygu_uzgun_%", "duygu_saskin_%",
      "duygu_dogal_%", "ekran_disi_sure_sn", "ekran_disi_sayisi", "soru", "cevap",
      "tip" }

\* Request r has read an upload that parses as a table.
HasTable(r) == req[r].file_content /= <<>> /\ req[r].file_content[1].kind = "table"

\* The required columns the upload of request r lacks.
MissingOf(r) == RequiredSet \ Range(req[r].file_content[1].header)

Finished(r) == req[r].pc = "done"

StatusOf(r) == req[r].response[1].status

DetailOf(r) == req[r].response[1].detail

\* The position of the first occurrence of step in the trace, 0 if none.
IndexOf(trace, step) ==
    IF \E i \in 1..Len(trace) : trace[i] = step
    THEN CHOOSE i \in 1..Len(trace) : trace[i] = step /\ \A j \in 1..(i - 1) : trace[j] /= step
    ELSE 0

Count(trace, step) == Cardinality({ i \in 1..Len(trace) : trace[i] = step })

\* C1: a .csv upload whose table lacks required columns ends with status 400
\* and a detail that names exactly the missing columns.
C1_MissingColumnsAre400 ==
    \A r \in Requests :
        (Finished(r) /\ HasTable(r) /\ MissingOf(r) /= {})
            => /\ StatusOf(r) = 400
               /\ Range(DetailOf(r)) \cap RequiredSet = MissingOf(r)

\* C2: a .csv upload with every required column and no data row ends with
\* status 400 and the no-data detail, and df.iloc[1] is never attempted.
C2_NoRowsIs400 ==
    \A r \in Requests :
        (Finished(r) /\ HasTable(r) /\ MissingOf(r) = {}
                     /\ req[r].file_content[1].rows = <<>>)
            => /\ StatusOf(r) = 400
               /\ DetailOf(r) = <<"CSV dosyasi veri icermiyor.">>
               /\ Count(req[r].trace, "iloc") = 0

\* C3: an upload whose file name does not end in the case-sensitive suffix
\* .csv ends with status 400 and the invalid-format detail; its content is
\* never read or parsed and no language-model call is made.
C3_NonCsvRejected ==
    \A r \in Requests :
        (req[r].pc /= "idle" /\ ~IsCsvName(req[r].filename))
            => /\ Finished(r)
               /\ StatusOf(r) = 400
               /\ DetailOf(r) = <<"Hatali dosya formati. Lutfen bir .csv dosyasi yukleyin.">>
               /\ req[r].response[1].body = <<>>
               /\ req[r].file_content = <<>>
               /\ req[r].df = <<>>
               /\ Count(req[r].trace, "read") = 0
               /\ Count(req[r].trace, "read_csv") = 0
               /\ req[r].llm_calls = 0

\* C3 witness: DATA.CSV has been rejected with status 400.
C3_Witness ==
    \E r \in Requests :
        /\ Finished(r)
        /\ req[r].filename = <<"D", "A", "T", "A", ".", "C", "S", "V">>
        /\ StatusOf(r) = 400

\* C4: when the HTML-to-PDF conversion fails the request ends with status
\* 500, the detail contains the failure text, no PDF bytes are in the
\* response and no StreamingResponse was produced.
C4_PdfFailureIs500 ==
    \A r \in Requests :
        (req[r].pdf_outcome /= <<>> /\ ~req[r].pdf_outcome[1].ok)
            => /\ Finished(r)
               /\ StatusOf(r) = 500
               /\ req[r].pdf_outcome[1].error \in Range(DetailOf(r))
               /\ req[r].response[1].body = <<>>
               /\ req[r].response[1].disposition = <<>>
               /\ Count(req[r].trace, "streaming_response") = 0

\* C4 witness: a render has failed and the request has ended.
C4_Witness ==
    \E r \in Requests :
        /\ Finished(r)
        /\ req[r].pdf_renders = 1
        /\ req[r].pdf_outcome /= <<>>
        /\ req[r].pdf_outcome[1].error = "cannot load font"

\* The four validations, in the order of the handler.
Validations == << "filename_ok", "read_csv", "columns_ok", "not_empty" >>

\* C5: generate_content is invoked only after the file name check, the CSV
\* parse, the column check and the no-rows check have passed, so a request
\* that fails one of them makes no language-model call and no PDF render.
C5_ValidationBeforeLLM ==
    \A r \in Requests :
        (req[r].llm_calls > 0 \/ req[r].pdf_renders > 0
            \/ Count(req[r].trace, "generate_content") > 0)
            => /\ IsCsvName(req[r].filename)
               /\ HasTable(r)
               /\ MissingOf(r) = {}
               /\ req[r].file_content[1].rows /= <<>>
               /\ \A i \in 1..Len(Validations) :
                    /\ IndexOf(req[r].trace, Validations[i]) > 0
                    /\ IndexOf(req[r].trace, Validations[i])
                         < IndexOf(req[r].trace, "generate_content")

\* C5 witness: the language model has been called for a valid upload.
C5_Witness ==
    \E r \in Requests :
        /\ req[r].llm_calls = 1
        /\ req[r].pc = "cleanup"
        /\ IsCsvName(req[r].filename)

\* C6: no request makes more than one language-model call or more than one
\* PDF render, and a request answered with 200 made exactly one call and then
\* exactly one render.
C6_SingleCallSingleRender ==
    \A r \in Requests :
        /\ req[r].llm_calls <= 1
        /\ req[r].pdf_renders <= 1
        /\ Count(req[r].trace, "generate_content") = req[r].llm_calls
        /\ Count(req[r].trace, "create_pdf") = req[r].pdf_renders
        /\ (Finished(r) /\ StatusOf(r) = 200)
              => /\ req[r].llm_calls = 1
                 /\ req[r].pdf_renders = 1
                 /\ IndexOf(req[r].trace, "generate_content")
                      < IndexOf(req[r].trace, "create_pdf")

\* C6 witness: a request has been answered with 200.
C6_Witness ==
    \E r \in Requests : Finished(r) /\ StatusOf(r) = 200 /\ req[r].llm_calls = 1

\* The prompt states the LLM score and asks for a hiring recommendation
\* addressed to HR: the candidate body.
IsCandidateBody(p) ==
    /\ Has(p.veriler, "LLM Skoru")
    /\ Has(p.veriler, "Aday Adi")
    /\ \E i \in 1..Len(p.talimatlar) :
         p.talimatlar[i][2] = "sadece Insan Kaynaklari profesyonellerine yonelik: Ise alim karari icin somut onerilerde bulun, en az iki paragraf"

\* The prompt carries the rule that forbids any mention of candidate or
\* interview: the customer body.
IsCustomerBody(p) ==
    /\ Has(p.veriler, "Musteri Adi")
    /\ \E i \in 1..Len(p.kurallar) :
         p.kurallar[i] = "Kesinlikle Mulakat dan aday dan bahsetme bu rapor musteri icin hazirlaniyor."

FiveTokens ==
    { "{{genel_bakis_icerik}}", "{{duygu_analizi_yorumu}}", "{{dikkat_analizi_yorumu}}",
      "{{genel_degerlendirme_icerik}}", "{{sonuclar_oneriler_icerik}}" }

\* The placeholder tokens that stand alone in a <p> of the document.
TokensOf(doc) ==
    { doc.paras[i][1].pieces[1] :
        i \in { k \in 1..Len(doc.paras) :
                  /\ Len(doc.paras[k]) = 1
                  /\ doc.paras[k][1].node = "text"
                  /\ Len(doc.paras[k][1].pieces) = 1 } }

\* The row of request r with its tip replaced.
WithTip(row_data, tip) ==
    [ i \in 1..Len(row_data) |->
        IF row_data[i][1] = "tip" THEN <<"tip", tip>> ELSE row_data[i] ]

\* C7: generate_llm_prompt returns the candidate body and not the customer
\* body for tip 0, the customer body and not the candidate body for tip 1;
\* either prompt embeds the same template, with all five placeholder tokens.
C7_VariantSelection ==
    \A r \in Requests :
        req[r].prompt /= <<>> =>
            LET p        == req[r].prompt[1]
                row_data == req[r].current_row_data
                tip      == Get(row_data, "tip")
                qa       == format_qa_section(Get(row_data, "soru_cevap"))
            IN  /\ tip \in {0, 1}
                /\ tip = 0 => IsCandidateBody(p) /\ ~IsCustomerBody(p)
                /\ tip = 1 => IsCustomerBody(p) /\ ~IsCandidateBody(p)
                /\ TokensOf(p.sablon) = FiveTokens
                /\ p.sablon.watermark = << <<>> >>
                /\ p.sablon.pie = << <<>> >>
                /\ p.sablon = generate_llm_prompt(WithTip(row_data, 1 - tip), qa).val[1].sablon

\* C7 witness: a prompt has been built for a row with tip 1.
C7_Witness ==
    \E r \in Requests :
        /\ req[r].prompt /= <<>>
        /\ req[r].pc = "llm"
        /\ Get(req[r].current_row_data, "tip") = 1

\* The img elements among the children of the watermark container.
Images(children) == SelectSeq(children, LAMBDA child : child.tag = "img")

\* C8: with an empty logo the request does not fail at the watermark step, no
\* img is appended to the watermark container and footer and content are
\* what they were; with a non-empty logo and a container, exactly one img
\* with a data:image/png;base64 URI is appended. The PDF of a 200 response is
\* rendered from that document.
C8_LogoSoftFailure ==
    \A r \in Requests :
        req[r].logo_base64 /= <<>> =>
            LET logo   == req[r].logo_base64[1]
                before == InjectCharts(CleanPlaceholders(req[r].llm_doc[1]),
                                       req[r].current_row_data)
                soup   == req[r].soup[1]
            IN  /\ IndexOf(req[r].trace, "logo") > 0
                /\ Len(req[r].trace) > IndexOf(req[r].trace, "logo")
                     => req[r].trace[IndexOf(req[r].trace, "logo") + 1]
                            \in {"debug_written", "debug_failed"}
                /\ soup.footer = before.footer
                /\ soup.h1 = before.h1
                /\ soup.paras = before.paras
                /\ soup.pie = before.pie
                /\ soup.qa = before.qa
                /\ (logo = <<>> \/ before.watermark = <<>>)
                      => soup.watermark = before.watermark
                /\ (logo /= <<>> /\ before.watermark /= <<>>)
                      => /\ Len(soup.watermark[1]) = Len(before.watermark[1]) + 1
                         /\ Len(Images(soup.watermark[1]))
                               = Len(Images(before.watermark[1])) + 1
                         /\ soup.watermark[1][Len(soup.watermark[1])].src
                               = [ scheme |-> "data:image/png;base64,", data |-> logo ]
                /\ (Finished(r) /\ StatusOf(r) = 200)
                      => req[r].response[1].body[1].pdf_of.markup = soup

\* C8 witness: a request whose logo was empty has been answered with 200 and
\* a document that has a watermark container without an img.
C8_Witness ==
    \E r \in Requests :
        /\ Finished(r)
        /\ StatusOf(r) = 200
        /\ req[r].logo_base64 = << <<>> >>
        /\ req[r].soup[1].watermark = << <<>> >>
        /\ req[r].soup[1].footer

\* The canonical order of the emotion keys, with the label of each.
Canonical ==
    << <<"duygu_mutlu_%", "Mutlu">>, <<"duygu_kizgin_%", "Kizgin">>,
       <<"duygu_igrenme_%", "Igrenme">>, <<"duygu_korku_%", "Korku">>,
       <<"duygu_uzgun_%", "Uzgun">>, <<"duygu_saskin_%", "Saskin">>,
       <<"duygu_dogal_%", "Dogal">> >>

\* The emotion keys present in the mapping, in canonical order.
PresentCanonical(d) == SelectSeq(Canonical, LAMBDA kl : Has(d, kl[1]))

\* The cells of a grid in row-major order.
Cells(html) == Flatten(html.rows)

\* The charts of a grid in row-major order.
ChartsOf(html) ==
    LET filled == SelectSeq(Cells(html), LAMBDA cell : cell.filled)
    IN  [ i \in 1..Len(filled) |-> filled[i].content[1] ]

\* C9: the charts of the grid are those of the emotion keys present in the
\* mapping, in canonical order whatever the order of the mapping, each drawn
\* with the value the mapping holds; absent keys and keys that are no emotion
\* keys give no chart.
C9_EmotionOrdering ==
    charts_html /= <<>> =>
        LET charts  == ChartsOf(charts_html[1])
            present == PresentCanonical(emotion_data)
        IN  /\ Len(charts) = Len(present)
            /\ \A i \in 1..Len(present) :
                 /\ charts[i].label = present[i][2]
                 /\ charts[i].img.sizes[1] = Get(emotion_data, present[i][1])

\* C9 witness: a grid rendered from a mapping in reverse order that lacks
\* one emotion key and holds a key that is no emotion key.
C9_Witness ==
    /\ charts_html /= <<>>
    /\ Len(emotion_data) = 7
    /\ emotion_data[1][1] = "kisi_adi"
    /\ emotion_data[2][1] = "duygu_dogal_%"
    /\ ~Has(emotion_data, "duygu_korku_%")

\* C10: with n emotion keys present, 1 <= n <= 7, the result is a table of
\* ceil(n/4) rows of exactly 4 cells whose first n cells in row-major order
\* hold the charts and whose other cells are empty; with n = 0 it is the
\* informational paragraph.
C10_GridShape ==
    charts_html /= <<>> =>
        LET html == charts_html[1]
            n    == Len(PresentCanonical(emotion_data))
        IN  /\ n = 0 => /\ html.tag = "p"
                        /\ html.text = "Gorsellestirilecek duygu verisi bulunamadi."
                        /\ html.rows = <<>>
            /\ n >= 1 =>
                 /\ html.tag = "table"
                 /\ Len(html.rows) = (n + 3) \div 4
                 /\ \A i \in 1..Len(html.rows) : Len(html.rows[i]) = 4
                 /\ \A k \in 1..Len(Cells(html)) :
                      /\ Cells(html)[k].filled = (k <= n)
                      /\ Len(Cells(html)[k].content) = (IF k <= n THEN 1 ELSE 0)

\* C10 witness: a grid rendered from a mapping with five emotion keys.
C10_Witness ==
    /\ charts_html /= <<>>
    /\ Len(PresentCanonical(emotion_data)) = 5
    /\ Len(charts_html[1].rows) = 2

\* The text a sequence of child nodes begins with: the pieces of its first
\* text, looked for inside leading elements, blanks dropped.
RECURSIVE LeadingText(_)
LeadingText(kids) ==
    IF kids = <<>> THEN <<>>
    ELSE IF kids[1].node = "text"
         THEN SelectSeq(kids[1].pieces, LAMBDA piece : piece /= " ")
         ELSE LeadingText(kids[1].kids)

\* The <p> element begins with one of the five placeholder tokens.
BeginsWithToken(p_tag) ==
    /\ LeadingText(p_tag) /= <<>>
    /\ LeadingText(p_tag)[1] \in FiveTokens

\* C11: after the clean-up step no <p> element of the document begins with
\* one of the five placeholder tokens, whatever its shape (plain text, text
\* followed by child elements, several tokens in a row).
C11_NoLeadingToken ==
    \A r \in Requests :
        (req[r].soup /= <<>> /\ Count(req[r].trace, "cleanup") > 0)
            => \A i \in 1..Len(req[r].soup[1].paras) :
                 ~BeginsWithToken(req[r].soup[1].paras[i])

\* The debug write of request r has been attempted and has failed.
DebugFailed(r) == Count(req[r].trace, "debug_failed") > 0

\* The Content-Disposition value for the person and session of a row.
DispositionFor(current_row_data) ==
    <<"attachment; filename*=UTF-8''">>
        \o quote(Get(current_row_data, "kisi_adi") \o <<"_">>
                   \o Get(current_row_data, "mulakat_adi")
                   \o <<"_", "R", "a", "p", "o", "r", ".", "p", "d", "f">>)

\* C12: a failed debug write ends nothing: no file is left, the request goes
\* on to the PDF render, which reads the final HTML held in memory, and the
\* response (status, PDF bytes, Content-Disposition) is the one the render
\* outcome alone determines, the same with and without the debug file.
C12_DebugWriteNonFatal ==
    \A r \in Requests :
        /\ DebugFailed(r)
            => /\ req[r].debug_file = <<>>
               /\ req[r].pc \in { "pdf", "respond", "done" }
               /\ Count(req[r].trace, "debug_written") = 0
               /\ Finished(r) => req[r].pdf_renders = 1
               /\ req[r].pdf_renders = 1
                   => req[r].trace[IndexOf(req[r].trace, "create_pdf") - 1] = "debug_failed"
        /\ (DebugFailed(r) \/ Count(req[r].trace, "debug_written") > 0)
            => /\ (req[r].pdf_renders = 1 /\ req[r].pdf_outcome[1].ok)
                   => req[r].response[1].body
                         = << [ pdf_of |-> req[r].final_html[1] ] >>
               /\ Finished(r)
                   => IF req[r].pdf_outcome[1].ok
                      THEN /\ StatusOf(r) = 200
                           /\ req[r].response[1].body
                                 = << [ pdf_of |-> req[r].final_html[1] ] >>
                           /\ req[r].response[1].disposition
                                 = DispositionFor(req[r].current_row_data)
                      ELSE /\ StatusOf(r) = 500
                           /\ req[r].response[1].body = <<>>
                           /\ req[r].pdf_outcome[1].error \in Range(DetailOf(r))

\* C12 witness: a request whose debug write failed has been answered with
\* 200 and the PDF of its in-memory document.
C12_Witness ==
    \E r \in Requests :
        /\ Finished(r)
        /\ DebugFailed(r)
        /\ req[r].debug_file = <<>>
        /\ StatusOf(r) = 200
        /\ req[r].response[1].body = << [ pdf_of |-> req[r].final_html[1] ] >>

\* Request r is being handled and its handler does not hold the event loop:
\* it is suspended, and the handlers of other requests may run.
Suspended(r) == req[r].pc /= "idle" /\ running /= r

\* C13 as stated: a handler is suspended only at the language-model call;
\* at every other step, the file read included, it holds the loop.
C13_SuspendsOnlyAtLLM ==
    \A r \in Requests : Suspended(r) => req[r].pc = "llm"

\* C13, amended: a handler is suspended only at "await file.read()", and it
\* is suspended there; from the resumption of the read to the response (the
\* language-model call, a plain blocking call, included) it holds the loop,
\* so at most one request is past its file read at any time.
C13_SuspendsOnlyAtRead ==
    /\ \A r \in Requests :
        /\ Suspended(r) <=> req[r].pc = "reading"
        /\ req[r].llm_calls > 0 => running = r
    /\ \A r, q \in Requests :
        (r /= q /\ req[r].pc \notin { "idle", "reading" })
            => req[q].pc \in { "idle", "reading" }

\* C13 witness: one request has made its language-model call and holds the
\* loop while another, accepted before the call, is still suspended at its
\* file read.
C13_Witness ==
    \E r, q \in Requests :
        /\ r /= q
        /\ req[r].pc = "cleanup"
        /\ req[r].llm_calls = 1
        /\ running = r
        /\ req[q].pc = "reading"
        /\ Suspended(q)

\* The number of data rows of the upload of request r.
DataRowsOf(r) == Len(req[r].file_content[1].rows)

TipOutOfRange(r) ==
    /\ req[r].current_row_data /= <<>>
    /\ Get(req[r].current_row_data, "tip") \notin {0, 1}

\* C15: for a row whose tip is neither 0 nor 1 generate_llm_prompt yields no
\* prompt (neither variant is taken as a default); the request makes no
\* language-model call and no PDF render, and ends with status 500 and no
\* PDF in the response.
C15_NoDefaultVariant ==
    \A r \in Requests :
        TipOutOfRange(r)
            => /\ req[r].pc \in { "prompt", "done" }
               /\ req[r].prompt = <<>>
               /\ req[r].llm_calls = 0
               /\ req[r].pdf_renders = 0
               /\ Finished(r)
                   => /\ StatusOf(r) = 500
                      /\ req[r].trace[Len(req[r].trace) - 1] = "prompt"
                      /\ req[r].response[1].body = <<>>
                      /\ req[r].response[1].disposition = <<>>

\* C15 witness: a request whose selected row has tip 2 has ended with
\* status 500.
C15_Witness ==
    \E r \in Requests :
        /\ Finished(r)
        /\ TipOutOfRange(r)
        /\ req[r].file_content[1].rows[2]["tip"] = 2000
        /\ StatusOf(r) = 500

====
